---- MODULE Spec2Model ----
(***************************************************************************)
(* Model of db-example: the dbutils helpers (wrappers.go) and the example  *)
(* program's updateUser (main package).  One call runs at a time (the      *)
(* helpers are synchronous and keep no state between calls); the database  *)
(* and the driver are the environment, whose outcomes (success, failure,   *)
(* panic of a caller-supplied function) are chosen nondeterministically.   *)
(***************************************************************************)
EXTENDS Integers, Sequences, FiniteSets, TLC

VARIABLES
    op,        \* the dbutils function being executed ("none" between calls)
    pc,        \* position inside it
    status,    \* "idle" | "running" | "returned" | "panicked"
    err,       \* the function's (named) error result
    log,       \* calls made so far by the current invocation, in order
    store,     \* committed contents of test_users: login -> name
    pre,       \* committed contents when the current call started
    txState,   \* "none" | "open" | "committed" | "rolledback" | "aborted"
    txView,    \* contents of test_users as seen inside the open transaction
    fres,      \* value returned by the unit of work / inner helper
    panicking, \* TRUE while a panic of the unit of work is propagating
    input,     \* the arguments of the current call
    cursor,    \* SelectMaps: rows the result set still has to deliver
    ret,       \* SelectMaps: the slice of row maps being returned
    numCols,   \* SelectMaps: capacity hint for the next row map
    pos        \* the positional query and arguments in effect

vars == <<op, pc, status, err, log, store, pre, txState, txView, fres,
          panicking, input, cursor, ret, numCols, pos>>

----------------------------------------------------------------------------
(* Bounds and input sets *)

\* largest number of tokens of a query given to a named variant
MaxQueryLen == 2

\* rows inserted by initScript, in insertion order
TableOrder == <<"ivanov", "petrov", "sidorov">>

Logins == {"ivanov", "petrov", "sidorov"}

InitialName(l) ==
    CASE l = "ivanov"  -> "Ivanov Ivan Ivanovich"
      [] l = "petrov"  -> "Petrov Petr Petrovich"
      [] l = "sidorov" -> "Sidorov Sidor Sidorovich"

\* logins a caller may ask for: one of the table, and one that is not in it
CallLogins == {"ivanov", "petrov", "nobody"}

NewNames == {"Sergeev", "Alekseev"}

----------------------------------------------------------------------------
(* Errors.  An error value is the list of its causes as multierr sees it   *)
(* (nil is the empty list, a plain error a list of one); each cause is the *)
(* chain of its wrapping messages, outermost first, ending in the driver's *)
(* error.                                                                  *)

Nil == << >>

DriverErr(name) == << <<name>> >>

\* all parts of all causes of e, in order
RECURSIVE Flat(_)
Flat(e) == IF e = << >> THEN << >> ELSE Head(e) \o Flat(Tail(e))

\* fmt.Errorf("<msg>: %w", e): one error whose chain is msg followed by e's
Wrap(msg, e) == << msg \o Flat(e) >>

\* errors.Is-style containment: name occurs somewhere in some cause of e
Contains(e, name) == \E i \in 1..Len(e) : \E j \in 1..Len(e[i]) : e[i][j] = name

\* a cause of e whose chain is name wrapped in the messages msg
HasWrapped(e, msg, name) == \E i \in 1..Len(e) : e[i] = msg \o <<name>>

sqlErr(e, query, args) == Wrap(<<"run query">> \o query \o <<"with args">> \o args, e)

\* multierr.Combine(a, b) with the order of the code kept: nils are dropped,
\* one remaining error is returned as it is, more are flattened into a list
Combine_DropsFirst(a, b) == IF b # Nil THEN b ELSE a
Combine(a, b) == a \o b

BeginError(e) == Wrap(<<"begin transaction">>, e)

\* one entry of the call log: the function called, its query and arguments,
\* and the error it returned
EvR(c, q, a, r) == [call |-> c, query |-> q, args |-> a, res |-> r]
Ev(c, q, a) == EvR(c, q, a, Nil)

\* how often the function c was called
Count(s, c) == Cardinality({i \in 1..Len(s) : s[i].call = c})

\* position of the first call of c (0 when it was not called)
Index(s, c) == IF \E i \in 1..Len(s) : s[i].call = c
               THEN CHOOSE i \in 1..Len(s) :
                      s[i].call = c /\ \A j \in 1..(i-1) : s[j].call # c
               ELSE 0

----------------------------------------------------------------------------
(* Positional helpers: the error each returns for an outcome of the driver *)

\* Get: sqlx.GetContext failed with driver error d, or succeeded (d = Nil)
Get(d, query, args) == IF d # Nil THEN sqlErr(d, query, args) ELSE Nil

\* a nil slice of row maps, and a non-nil one holding rows
NilRet == [nil |-> TRUE, rows |-> << >>]
Rows(r) == [nil |-> FALSE, rows |-> r]

NoPos == [q |-> << >>, args |-> << >>]

NoInput == [login |-> "", newName |-> "", query |-> << >>, arg |-> << >>,
            variant |-> "", bind |-> ""]

Init ==
    /\ op = "none"
    /\ pc = "idle"
    /\ status = "idle"
    /\ err = Nil
    /\ log = << >>
    /\ store = [l \in Logins |-> InitialName(l)]
    /\ pre = [l \in Logins |-> InitialName(l)]
    /\ txState = "none"
    /\ txView = [l \in Logins |-> InitialName(l)]
    /\ fres = Nil
    /\ panicking = FALSE
    /\ input = NoInput
    /\ cursor = << >>
    /\ ret = NilRet
    /\ numCols = -1
    /\ pos = NoPos

SelUnchanged == UNCHANGED <<cursor, ret, numCols, pos>>

----------------------------------------------------------------------------
(* updateUser -> RunTx -> updateUserTx *)

SelectUserQ == <<"SELECT * FROM test_users WHERE login = ", "$1">>
UpdateUserQ == <<"UPDATE test_users SET name = ", "$1", " WHERE login = ", "$2",
                 " RETURNING *">>

\* updateUser(ctx, dbh, login, newName) calls RunTx with its closure
CallRunTx ==
    /\ status = "idle"
    /\ \E l \in CallLogins, n \in NewNames :
         input' = [NoInput EXCEPT !.login = l, !.newName = n]
    /\ op' = "RunTx" /\ pc' = "begin" /\ status' = "running"
    /\ err' = Nil /\ log' = << >> /\ pre' = store
    /\ txState' = "none" /\ txView' = store /\ fres' = Nil /\ panicking' = FALSE
    /\ UNCHANGED store /\ SelUnchanged

\* lines 155-158: tx, err = db.BeginTxx(ctx, opts)
RunTxBegin_ContinuesOnError ==
    /\ op = "RunTx" /\ pc = "begin"
    /\ \E ok \in BOOLEAN :
         /\ log' = Append(log, EvR("BeginTxx", << >>, << >>,
                                   IF ok THEN Nil ELSE DriverErr("begin_err")))
         /\ IF ok
            THEN /\ txState' = "open" /\ txView' = store
                 /\ err' = Nil /\ pc' = "call_f" /\ status' = status
            ELSE /\ err' = BeginError(DriverErr("begin_err"))
                 /\ pc' = "call_f" /\ status' = status
                 /\ UNCHANGED <<txState, txView>>
    /\ UNCHANGED <<op, store, pre, fres, panicking, input>> /\ SelUnchanged
RunTxBegin ==
    /\ op = "RunTx" /\ pc = "begin"
    /\ \E ok \in BOOLEAN :
         /\ log' = Append(log, EvR("BeginTxx", << >>, << >>,
                                   IF ok THEN Nil ELSE DriverErr("begin_err")))
         /\ IF ok
            THEN /\ txState' = "open" /\ txView' = store
                 /\ err' = Nil /\ pc' = "call_f" /\ status' = status
            ELSE /\ err' = BeginError(DriverErr("begin_err"))
                 /\ pc' = "done" /\ status' = "returned"
                 /\ UNCHANGED <<txState, txView>>
    /\ UNCHANGED <<op, store, pre, fres, panicking, input>> /\ SelUnchanged

\* line 167: f(tx) is entered (the deferred block of 159-165 is registered)
RunTxCallF_Skipped ==
    /\ op = "RunTx" /\ pc = "call_f"
    /\ pc' = "deferred"
    /\ UNCHANGED <<op, status, err, log, store, pre, txState, txView, fres,
                   panicking, input>> /\ SelUnchanged
RunTxCallF ==
    /\ op = "RunTx" /\ pc = "call_f"
    /\ log' = Append(log, Ev("f", << >>, << >>))
    /\ pc' = "uow_select"
    /\ UNCHANGED <<op, status, err, store, pre, txState, txView, fres,
                   panicking, input>> /\ SelUnchanged

\* updateUserTx, first Get: SELECT ... WHERE login = $1
UpdateUserTxSelect ==
    /\ op = "RunTx" /\ pc = "uow_select"
    /\ \E d \in {Nil, DriverErr("select_err")} :
         LET found == input.login \in DOMAIN txView
             de == IF d # Nil THEN d
                   ELSE IF found THEN Nil ELSE DriverErr("sql: no rows in result set")
             e == Get(de, SelectUserQ, <<input.login>>)
         IN  IF e # Nil
             THEN fres' = e /\ pc' = "uow_ret"
             ELSE fres' = Nil /\ pc' = "uow_update"
    /\ UNCHANGED <<op, status, err, log, store, pre, txState, txView,
                   panicking, input>> /\ SelUnchanged

\* updateUserTx, second Get: UPDATE ... RETURNING *.  The statement may fail
\* before it changes the row, or change it and fail while the returned row
\* is scanned.
UpdateUserTxUpdate_OutsideTx ==
    /\ op = "RunTx" /\ pc = "uow_update"
    /\ \E written \in BOOLEAN, d \in {Nil, DriverErr("update_err")} :
         /\ (d = Nil) => written
         /\ store' = IF written /\ input.login \in DOMAIN store
                     THEN [store EXCEPT ![input.login] = input.newName]
                     ELSE store
         /\ fres' = Get(d, UpdateUserQ, <<input.newName, input.login>>)
    /\ pc' = "uow_ret"
    /\ UNCHANGED <<op, status, err, log, pre, txState, txView,
                   panicking, input>> /\ SelUnchanged
UpdateUserTxUpdate ==
    /\ op = "RunTx" /\ pc = "uow_update"
    /\ \E written \in BOOLEAN, d \in {Nil, DriverErr("update_err")} :
         /\ (d = Nil) => written
         /\ txView' = IF written /\ input.login \in DOMAIN txView
                      THEN [txView EXCEPT ![input.login] = input.newName]
                      ELSE txView
         /\ fres' = Get(d, UpdateUserQ, <<input.newName, input.login>>)
    /\ pc' = "uow_ret"
    /\ UNCHANGED <<op, status, err, log, store, pre, txState,
                   panicking, input>> /\ SelUnchanged

\* a unit of work (TxFunc) may panic instead of returning
UowPanic ==
    /\ op = "RunTx" /\ pc \in {"uow_select", "uow_update", "uow_ret"}
    /\ panicking' = TRUE
    /\ pc' = "deferred"
    /\ UNCHANGED <<op, status, err, log, store, pre, txState, txView, fres,
                   input>> /\ SelUnchanged

\* line 167: return f(tx) stores f's result in the named result err
RunTxReturnF ==
    /\ op = "RunTx" /\ pc = "uow_ret"
    /\ err' = fres
    /\ pc' = "deferred"
    /\ UNCHANGED <<op, status, log, store, pre, txState, txView, fres,
                   panicking, input>> /\ SelUnchanged

\* line 160: which call ends the transaction
TxTerminator_AlwaysCommit(e) == "Commit"
TxTerminator_AlwaysRollback(e) == "Rollback"
TxTerminator(e) == IF e # Nil THEN "Rollback" ELSE "Commit"

\* line 163: err = tx.Commit()
CommitResult_Ignored(c) == Nil
CommitResult(c) == c

\* lines 159-165: the deferred block, then RunTx returns or the panic goes on
RunTxDeferred_NoRollback ==
    /\ op = "RunTx" /\ pc = "deferred"
    /\ IF TxTerminator(err) = "Rollback"
       THEN UNCHANGED <<log, txState, err, store>>
       ELSE \E c \in {Nil, DriverErr("commit_err")} :
              /\ log' = Append(log, EvR("Commit", << >>, << >>, c))
              /\ txState' = IF c = Nil THEN "committed" ELSE "aborted"
              /\ store' = IF c = Nil THEN txView ELSE store
              /\ err' = CommitResult(c)
    /\ pc' = "done"
    /\ status' = IF panicking THEN "panicked" ELSE "returned"
    /\ UNCHANGED <<op, pre, txView, fres, panicking, input>> /\ SelUnchanged
RunTxDeferred ==
    /\ op = "RunTx" /\ pc = "deferred"
    /\ IF TxTerminator(err) = "Rollback"
       THEN \E r \in {Nil, DriverErr("rollback_err")} :
              /\ log' = Append(log, EvR("Rollback", << >>, << >>, r))
              /\ txState' = IF r = Nil THEN "rolledback" ELSE "aborted"
              /\ err' = Combine(err, r)
              /\ UNCHANGED store
       ELSE \E c \in {Nil, DriverErr("commit_err")} :
              /\ log' = Append(log, EvR("Commit", << >>, << >>, c))
              /\ txState' = IF c = Nil THEN "committed" ELSE "aborted"
              /\ store' = IF c = Nil THEN txView ELSE store
              /\ err' = CommitResult(c)
    /\ pc' = "done"
    /\ status' = IF panicking THEN "panicked" ELSE "returned"
    /\ UNCHANGED <<op, pre, txView, fres, panicking, input>> /\ SelUnchanged

----------------------------------------------------------------------------
(* SelectMaps *)

AllUsersQ == <<"SELECT * FROM test_users">>

ByLoginText == "SELECT * FROM test_users WHERE login = "

\* the id BIGSERIAL gave the row of login l: its insertion position
UserId(l) == CHOOSE i \in 1..Len(TableOrder) : TableOrder[i] = l

\* the row of login l, as the map MapScan fills: one key per column
RowMap(l) == [id |-> UserId(l), login |-> l, name |-> store[l]]

\* SELECT * FROM test_users WHERE login = <placeholder>
ByLoginQ(q) == Len(q) = 2 /\ q[1] = ByLoginText /\ q[2] \in {"?", "$1"}

\* the statements the database accepts; any other text is refused by it
WellFormed(q, args) ==
    \/ q = AllUsersQ /\ args = << >>
    \/ ByLoginQ(q) /\ Len(args) = 1

\* the rows among the first k of test_users that the statement selects
RECURSIVE RowsUpTo(_, _, _)
RowsUpTo(k, q, args) ==
    IF k = 0 THEN << >>
    ELSE LET l == TableOrder[k]
             sel == q = AllUsersQ \/ (ByLoginQ(q) /\ args[1] = l)
         IN  RowsUpTo(k - 1, q, args) \o (IF sel THEN <<RowMap(l)>> ELSE << >>)

\* the result set of a well-formed statement
ResultRows(q, args) == RowsUpTo(Len(TableOrder), q, args)

\* SelectMaps is running, called directly or by NamedSelectMaps
InSelectMaps == op = "SelectMaps" \/ (op = "Named" /\ input.variant = "NamedSelectMaps")

\* the example program calls SelectMaps(ctx, dbh, q)
CallSelectMaps ==
    /\ status = "idle"
    /\ input' = [NoInput EXCEPT !.query = AllUsersQ]
    /\ pos' = [q |-> AllUsersQ, args |-> << >>]
    /\ op' = "SelectMaps" /\ pc' = "query" /\ status' = "running"
    /\ err' = Nil /\ log' = << >> /\ pre' = store
    /\ UNCHANGED <<store, txState, txView, fres, panicking, cursor, ret, numCols>>

\* lines 77-87: the query is sent; on success the result set is open, the
\* deferred close is registered and ret is an empty, non-nil slice
SelectMapsQuery ==
    /\ InSelectMaps /\ pc = "query"
    /\ \E d \in {Nil, DriverErr("query_err")} :
         /\ ~WellFormed(pos.q, pos.args) => d # Nil
         /\ log' = Append(log, EvR("QueryxContext", pos.q, pos.args, d))
         /\ IF d # Nil
            THEN
              /\ err' = sqlErr(d, pos.q, pos.args)
              /\ ret' = NilRet
              /\ pc' = "done" /\ status' = "returned"
              /\ UNCHANGED <<cursor, numCols>>
            ELSE
              /\ cursor' = ResultRows(pos.q, pos.args)
              /\ err' = Nil
              /\ ret' = Rows(<< >>)
              /\ numCols' = -1
              /\ pc' = "next" /\ status' = status
    /\ UNCHANGED <<op, store, pre, txState, txView, fres, panicking, input, pos>>

\* line 88: rows.Next() is false when the rows are used up or the iteration
\* failed; the failure is what rows.Err() reports afterwards
SelectMapsNext ==
    /\ InSelectMaps /\ pc = "next"
    /\ log' = Append(log, Ev("Next", << >>, << >>))
    /\ \E it \in {Nil, DriverErr("iter_err")} :
         IF it = Nil /\ cursor # << >>
         THEN pc' = "scan" /\ fres' = Nil
         ELSE pc' = "rows_err" /\ fres' = it
    /\ UNCHANGED <<op, status, err, store, pre, txState, txView, panicking,
                   input, cursor, ret, numCols, pos>>

\* lines 89-100: one row is scanned into a fresh map and appended
SelectMapsScan ==
    /\ InSelectMaps /\ pc = "scan"
    /\ \E d \in {Nil, DriverErr("scan_err")} :
         /\ log' = Append(log, EvR("MapScan", << >>, << >>, d))
         /\ IF d # Nil
            THEN
              /\ err' = sqlErr(d, pos.q, pos.args)
              /\ ret' = NilRet
              /\ pc' = "deferred"
              /\ UNCHANGED <<cursor, numCols>>
            ELSE
              /\ ret' = Rows(Append(ret.rows, Head(cursor)))
              /\ numCols' = Cardinality(DOMAIN Head(cursor))
              /\ cursor' = Tail(cursor)
              /\ pc' = "next"
              /\ UNCHANGED err
    /\ UNCHANGED <<op, status, store, pre, txState, txView, fres, panicking,
                   input, pos>>

\* lines 103-107: err = rows.Err()
SelectMapsRowsErr ==
    /\ InSelectMaps /\ pc = "rows_err"
    /\ log' = Append(log, EvR("Err", << >>, << >>, fres))
    /\ IF fres # Nil
       THEN err' = sqlErr(fres, pos.q, pos.args) /\ ret' = NilRet
       ELSE err' = Nil /\ UNCHANGED ret
    /\ pc' = "deferred"
    /\ UNCHANGED <<op, status, store, pre, txState, txView, fres, panicking,
                   input, cursor, numCols, pos>>

\* lines 82-84: the deferred block closes the result set
SelectMapsDeferred_CloseErrorOnly ==
    /\ InSelectMaps /\ pc = "deferred"
    /\ \E c \in {Nil, DriverErr("close_err")} :
         /\ log' = Append(log, EvR("Close", << >>, << >>, c))
         /\ err' = Combine_DropsFirst(err, c)
    /\ cursor' = << >>
    /\ pc' = "done" /\ status' = "returned"
    /\ UNCHANGED <<op, store, pre, txState, txView, fres, panicking, input,
                   ret, numCols, pos>>
SelectMapsDeferred ==
    /\ InSelectMaps /\ pc = "deferred"
    /\ \E c \in {Nil, DriverErr("close_err")} :
         /\ log' = Append(log, EvR("Close", << >>, << >>, c))
         /\ err' = Combine(err, c)
    /\ cursor' = << >>
    /\ pc' = "done" /\ status' = "returned"
    /\ UNCHANGED <<op, store, pre, txState, txView, fres, panicking, input,
                   ret, numCols, pos>>

----------------------------------------------------------------------------
(* Named-parameter variants *)

Variants == {"NamedExec", "NamedSelect", "NamedGet", "NamedSelectMaps", "NamedGetMap"}

\* the positional helper a variant hands over to, and the driver call that
\* helper makes first
Positional(v) ==
    CASE v = "NamedExec"       -> "Exec"
      [] v = "NamedSelect"     -> "Select"
      [] v = "NamedGet"        -> "Get"
      [] v = "NamedSelectMaps" -> "SelectMaps"
      [] v = "NamedGetMap"     -> "GetMap"

DriverCall(v) ==
    CASE v = "NamedExec"       -> "ExecContext"
      [] v = "NamedSelect"     -> "SelectContext"
      [] v = "NamedGet"        -> "GetContext"
      [] v = "NamedSelectMaps" -> "QueryxContext"
      [] v = "NamedGetMap"     -> "QueryRowxContext"

DriverCalls == {"ExecContext", "SelectContext", "GetContext", "QueryxContext",
                "QueryRowxContext", "Next", "MapScan", "Err", "Close"}

\* query texts are sequences of tokens: literal text and named placeholders
LiteralTokens == {ByLoginText}
NamedTokens == {":login", ":name"}
Tokens == LiteralTokens \cup NamedTokens

NameOf(t) == CASE t = ":login" -> "login" [] t = ":name" -> "name"

ParamNames == {"login", "name"}
ParamValue(n) == CASE n = "login" -> "petrov" [] n = "name" -> "Sergeev"

\* the argument maps a caller passes: any subset of the names bound
ArgMaps == {[n \in S |-> ParamValue(n)] : S \in SUBSET ParamNames}

RECURSIVE SeqsOfLen(_)
SeqsOfLen(n) == IF n = 0 THEN {<< >>}
                ELSE {Append(q, t) : q \in SeqsOfLen(n - 1), t \in Tokens}

Queries == UNION {SeqsOfLen(n) : n \in 1..MaxQueryLen}

\* driver placeholder styles of sqlx (bind types)
BindTypes == {"QUESTION", "DOLLAR"}

\* sqlx.Named(query, arg): every named placeholder becomes "?", and its value
\* is appended to the argument list; a name the map lacks is an error
RECURSIVE Named(_, _)
Named(query, arg) ==
    IF query = << >> THEN [ok |-> TRUE, q |-> << >>, args |-> << >>]
    ELSE LET t == Head(query)
             rest == Named(Tail(query), arg)
         IN  IF t \in NamedTokens
             THEN IF NameOf(t) \in DOMAIN arg
                  THEN [ok |-> rest.ok, q |-> <<"?">> \o rest.q,
                        args |-> <<arg[NameOf(t)]>> \o rest.args]
                  ELSE [ok |-> FALSE, q |-> << >>, args |-> << >>]
             ELSE [ok |-> rest.ok, q |-> <<t>> \o rest.q, args |-> rest.args]

Dollar(k) == CASE k = 1 -> "$1" [] k = 2 -> "$2" [] k = 3 -> "$3"
               [] k = 4 -> "$4" [] OTHER -> "$n"

\* db.Rebind(q): the k-th "?" becomes "$k" for a DOLLAR driver
RECURSIVE RebindFrom(_, _, _)
RebindFrom(bind, q, k) ==
    IF q = << >> THEN << >>
    ELSE IF Head(q) = "?" /\ bind = "DOLLAR"
         THEN <<Dollar(k)>> \o RebindFrom(bind, Tail(q), k + 1)
         ELSE <<Head(q)>> \o RebindFrom(bind, Tail(q), k)

Rebind(bind, q) == RebindFrom(bind, q, 1)

\* lines 16-22: namedQuery
namedQuery_IgnoresError(query, arg) ==
    LET r == Named(query, arg)
    IN  [nq |-> r.q, args |-> r.args, err |-> Nil]
namedQuery(query, arg) ==
    LET r == Named(query, arg)
    IN  IF ~r.ok
        THEN [nq |-> << >>, args |-> << >>,
              err |-> sqlErr(DriverErr("bind_err"), query, r.args)]
        ELSE [nq |-> r.q, args |-> r.args, err |-> Nil]

\* Exec, Select: the driver call failed with d, or succeeded (d = Nil)
Exec(d, query, args) == IF d # Nil THEN sqlErr(d, query, args) ELSE Nil
Select(d, query, args) == IF d # Nil THEN sqlErr(d, query, args) ELSE Nil

\* GetMap: row.Err() is re, and MapScan's result is se
GetMap(re, se, query, args) ==
    IF re # Nil THEN sqlErr(re, query, args)
    ELSE IF se # Nil THEN sqlErr(se, query, args)
    ELSE Nil

\* the calls GetMap makes on the driver and the row, in order: row.Err() is
\* read twice when it is not nil, and MapScan is reached only when it is nil
GetMapCalls(re, se, query, args) ==
    <<Ev("QueryRowxContext", query, args), EvR("Err", << >>, << >>, re)>> \o
    (IF re # Nil THEN <<EvR("Err", << >>, << >>, re)>>
     ELSE <<EvR("MapScan", << >>, << >>, se)>>)

ErrNoRows == DriverErr("sql: no rows in result set")

\* a caller calls one of the named variants
CallNamed ==
    /\ status = "idle"
    /\ \E v \in Variants, q \in Queries, a \in ArgMaps, b \in BindTypes :
         input' = [NoInput EXCEPT !.variant = v, !.query = q, !.arg = a, !.bind = b]
    /\ op' = "Named" /\ pc' = "named_query" /\ status' = "running"
    /\ err' = Nil /\ log' = << >> /\ pre' = store
    /\ UNCHANGED <<store, txState, txView, fres, panicking, cursor, ret,
                   numCols, pos>>

\* first statement of every variant: nq, args, err := namedQuery(query, arg)
NamedQuery ==
    /\ op = "Named" /\ pc = "named_query"
    /\ log' = Append(log, Ev("Named", input.query, << >>))
    /\ LET r == namedQuery(input.query, input.arg)
       IN  IF r.err # Nil
           THEN /\ err' = r.err
                /\ pc' = "done" /\ status' = "returned"
                /\ UNCHANGED pos
           ELSE /\ pos' = [q |-> r.nq, args |-> r.args]
                /\ pc' = "delegate" /\ status' = status
                /\ UNCHANGED err
    /\ UNCHANGED <<op, store, pre, txState, txView, fres, panicking, input,
                   cursor, ret, numCols>>

\* last statement of every variant: return X(ctx, db, db.Rebind(nq), args...)
NamedDelegate ==
    /\ op = "Named" /\ pc = "delegate"
    /\ LET v == input.variant
           q == Rebind(input.bind, pos.q)
           called == log \o <<Ev("Rebind", pos.q, << >>), Ev(Positional(v), q, pos.args)>>
       IN  /\ pos' = [q |-> q, args |-> pos.args]
           /\ IF v = "NamedSelectMaps"
              THEN /\ log' = called
                   /\ pc' = "query" /\ status' = status
                   /\ UNCHANGED err
              ELSE /\ pc' = "done" /\ status' = "returned"
                   /\ \E d \in {Nil, DriverErr("query_err")},
                        s \in {Nil, DriverErr("scan_err")} :
                        LET \* no row to scan is an error of its own
                            none == d = Nil /\ ResultRows(q, pos.args) = << >>
                            de == IF none THEN ErrNoRows ELSE d
                            se == IF none THEN ErrNoRows ELSE s
                        IN  /\ ~WellFormed(q, pos.args) => d # Nil
                            /\ log' = called \o
                                 CASE v = "NamedExec"   ->
                                        <<EvR("ExecContext", q, pos.args, d)>>
                                   [] v = "NamedSelect" ->
                                        <<EvR("SelectContext", q, pos.args, d)>>
                                   [] v = "NamedGet"    ->
                                        <<EvR("GetContext", q, pos.args, de)>>
                                   [] v = "NamedGetMap" ->
                                        GetMapCalls(d, se, q, pos.args)
                            /\ err' =
                                 CASE v = "NamedExec"   -> Exec(d, q, pos.args)
                                   [] v = "NamedSelect" -> Select(d, q, pos.args)
                                   [] v = "NamedGet"    -> Get(de, q, pos.args)
                                   [] v = "NamedGetMap" -> GetMap(d, se, q, pos.args)
    /\ UNCHANGED <<op, store, pre, txState, txView, fres, panicking, input,
                   cursor, ret, numCols>>

\* the caller takes the result; the next call may start
Return ==
    /\ status = "returned"
    /\ status' = "idle" /\ op' = "none" /\ pc' = "idle"
    /\ err' = Nil /\ log' = << >> /\ pre' = store
    /\ txState' = "none" /\ txView' = store /\ fres' = Nil /\ panicking' = FALSE
    /\ input' = NoInput
    /\ cursor' = << >> /\ ret' = NilRet /\ numCols' = -1
    /\ pos' = NoPos
    /\ UNCHANGED store

Next ==
    \/ CallRunTx
    \/ RunTxBegin
    \/ RunTxCallF
    \/ UpdateUserTxSelect
    \/ UpdateUserTxUpdate
    \/ UowPanic
    \/ RunTxReturnF
    \/ RunTxDeferred
    \/ CallSelectMaps
    \/ SelectMapsQuery
    \/ SelectMapsNext
    \/ SelectMapsScan
    \/ SelectMapsRowsErr
    \/ SelectMapsDeferred
    \/ CallNamed
    \/ NamedQuery
    \/ NamedDelegate
    \/ Return

Spec == Init /\ [][Next]_vars

----------------------------------------------------------------------------
(* Properties *)

Finished == status \in {"returned", "panicked"}

\* the result the call c returned (Nil when it was not called)
ResultOf(c) == IF Index(log, c) = 0 THEN Nil ELSE log[Index(log, c)].res

Called(c) == Index(log, c) > 0

\* BeginTxx was called and succeeded
Opened == Called("BeginTxx") /\ ResultOf("BeginTxx") = Nil

Terminations == Count(log, "Commit") + Count(log, "Rollback")

\* the unit of work has run through its body
InUnitOfWork == pc \in {"uow_select", "uow_update", "uow_ret"}

\* C1: once BeginTxx has succeeded, RunTx calls exactly one of Commit and
\* Rollback, once, before it is left (by return or by a propagating panic),
\* whatever the unit of work, Commit or Rollback answered; the transaction is
\* not open afterwards, and never ended twice.
C1_ExactlyOneTermination ==
    op = "RunTx" =>
      /\ Terminations <= 1
      /\ (Finished /\ Opened) => (Terminations = 1 /\ txState # "open")
      /\ (Terminations = 1) => (Finished /\ log[Len(log)].call \in {"Commit", "Rollback"})

\* C1 witness: the unit of work failed, Rollback was called and failed too
C1_Witness ==
    /\ op = "RunTx" /\ status = "returned" /\ Opened
    /\ fres # Nil
    /\ Called("Rollback") /\ ResultOf("Rollback") # Nil

\* C2: when RunTx returns, a unit of work that returned nil has led to one
\* Commit and no Rollback, and one that returned an error to one Rollback and
\* no Commit.
C2_TerminatorFollowsResult ==
    (op = "RunTx" /\ status = "returned" /\ Opened) =>
      /\ (fres = Nil) => (Count(log, "Commit") = 1 /\ Count(log, "Rollback") = 0)
      /\ (fres # Nil) => (Count(log, "Rollback") = 1 /\ Count(log, "Commit") = 0)

\* C2 witness: a failed unit of work, rolled back
C2_Witness ==
    /\ op = "RunTx" /\ status = "returned" /\ Opened
    /\ fres # Nil /\ Count(log, "Rollback") = 1 /\ txState = "rolledback"

\* C3: when the unit of work fails and Rollback fails, the error RunTx returns
\* is not nil and holds every cause of the unit of work's error, unchanged,
\* followed by the rollback error.
C3_BothErrorsKept ==
    (op = "RunTx" /\ status = "returned" /\ fres # Nil
       /\ Called("Rollback") /\ ResultOf("Rollback") # Nil) =>
      /\ err # Nil
      /\ Len(err) = Len(fres) + 1
      /\ \A i \in 1..Len(fres) : err[i] = fres[i]
      /\ err[Len(err)] = <<"rollback_err">>
      /\ Contains(err, "rollback_err")
      /\ \E n \in {"select_err", "update_err", "sql: no rows in result set"} :
           Contains(err, n)

\* C3 witness: the update changed the row, failed, and Rollback failed
C3_Witness ==
    /\ op = "RunTx" /\ status = "returned"
    /\ Contains(fres, "update_err")
    /\ txView # pre
    /\ ResultOf("Rollback") = DriverErr("rollback_err")

\* C4: when BeginTxx fails, RunTx returns at once the driver's error wrapped
\* as "begin transaction"; the unit of work, Commit and Rollback are not called.
C4_BeginFailure ==
    (op = "RunTx" /\ Called("BeginTxx") /\ ResultOf("BeginTxx") # Nil) =>
      /\ status = "returned"
      /\ err = << <<"begin transaction", "begin_err">> >>
      /\ HasWrapped(err, <<"begin transaction">>, "begin_err")
      /\ Len(log) = 1
      /\ ~Called("f") /\ ~Called("Commit") /\ ~Called("Rollback")
      /\ txState = "none" /\ store = pre

\* C4 witness: a RunTx whose BeginTxx failed
C4_Witness ==
    /\ op = "RunTx" /\ status = "returned"
    /\ Called("BeginTxx") /\ ResultOf("BeginTxx") = DriverErr("begin_err")

\* C5: with the transaction opened, the unit of work is called exactly once,
\* after BeginTxx and before Commit or Rollback, and while it runs the
\* transaction is open and neither Commit nor Rollback has been called.
C5_UnitOfWorkOnce ==
    op = "RunTx" =>
      /\ Count(log, "f") <= 1
      /\ InUnitOfWork => (txState = "open" /\ Count(log, "f") = 1 /\ Terminations = 0)
      /\ Called("f") => (Opened /\ Index(log, "BeginTxx") < Index(log, "f"))
      /\ (Finished /\ Opened) => Count(log, "f") = 1
      /\ Called("Commit") => (Called("f") /\ Index(log, "f") < Index(log, "Commit"))
      /\ Called("Rollback") => (Called("f") /\ Index(log, "f") < Index(log, "Rollback"))

\* C5 witness: a complete run: BeginTxx, the unit of work, Commit
C5_Witness ==
    /\ op = "RunTx" /\ status = "returned"
    /\ Len(log) = 3
    /\ log[1].call = "BeginTxx" /\ log[2].call = "f" /\ log[3].call = "Commit"

\* C6: RunTx returns nil exactly when BeginTxx, the unit of work and Commit all
\* succeeded; when the unit of work succeeds and Commit fails the commit error
\* is what is returned; no step is made twice.
C6_NilIffAllSucceeded ==
    (op = "RunTx" /\ status = "returned") =>
      /\ (err = Nil) <=> /\ Opened
                         /\ Called("f") /\ fres = Nil
                         /\ Called("Commit") /\ ResultOf("Commit") = Nil
      /\ (Opened /\ fres = Nil /\ ResultOf("Commit") # Nil) => err = ResultOf("Commit")
      /\ Count(log, "BeginTxx") = 1
      /\ Count(log, "f") <= 1
      /\ Count(log, "Commit") <= 1 /\ Count(log, "Rollback") <= 1

\* C6 witness: the unit of work succeeded and Commit failed
C6_Witness ==
    /\ op = "RunTx" /\ status = "returned"
    /\ Called("f") /\ fres = Nil
    /\ ResultOf("Commit") = DriverErr("commit_err")
    /\ err # Nil

\* C7: after RunTx returns, a unit of work that updated a user and returned
\* nil, with Commit succeeding, has its update in the committed table (and
\* nothing else changed); a unit of work that returned an error has left the
\* committed table as it was before the call, whatever it wrote.
C7_Atomicity ==
    (op = "RunTx" /\ status = "returned" /\ Opened) =>
      /\ (fres = Nil /\ ResultOf("Commit") = Nil) =>
            /\ store[input.login] = input.newName
            /\ \A l \in Logins \ {input.login} : store[l] = pre[l]
            /\ store = txView
      /\ (fres # Nil) => store = pre

\* C7 witness: the unit of work changed the row inside the transaction and
\* then returned an error
C7_Witness ==
    /\ op = "RunTx" /\ status = "returned" /\ Opened
    /\ fres # Nil
    /\ input.login \in Logins
    /\ txView[input.login] = input.newName
    /\ txView # pre

\* a MapScan or the iteration of the result set failed
ScanFailed == \E i \in 1..Len(log) : log[i].call = "MapScan" /\ log[i].res # Nil
IterFailed == \E i \in 1..Len(log) : log[i].call = "Err" /\ log[i].res # Nil

\* C8: once the query of SelectMaps has given a result set, SelectMaps closes it
\* exactly once, as its last call, on every path; a close error alone is the
\* error returned, and with a scan or iteration error the returned error
\* holds that error first and the close error second.
C8_CursorClosed ==
    (InSelectMaps /\ Called("QueryxContext") /\ ResultOf("QueryxContext") = Nil) =>
      /\ Count(log, "Close") <= 1
      /\ Called("Close") => status = "returned"
      /\ (status = "returned") =>
           LET c == log[Len(log)].res
               primary == ScanFailed \/ IterFailed
           IN  /\ Count(log, "Close") = 1
               /\ log[Len(log)].call = "Close"
               /\ cursor = << >>
               /\ (~primary /\ c = Nil) => err = Nil
               /\ (~primary /\ c # Nil) => err = c
               /\ (primary /\ c = Nil) =>
                     /\ Len(err) = 1
                     /\ ScanFailed => Contains(err, "scan_err")
                     /\ IterFailed => Contains(err, "iter_err")
               /\ (primary /\ c # Nil) =>
                     /\ Len(err) = 2
                     /\ ScanFailed => Contains(<<err[1]>>, "scan_err")
                     /\ IterFailed => Contains(<<err[1]>>, "iter_err")
                     /\ err[2] = <<"close_err">>

\* C8 witness: a row was read, the next scan failed, and the close failed too
C8_Witness ==
    /\ InSelectMaps /\ status = "returned"
    /\ Count(log, "MapScan") = 2
    /\ ScanFailed
    /\ log[Len(log)].call = "Close" /\ log[Len(log)].res = DriverErr("close_err")

\* every named placeholder of the query has a value in the argument map
Bound(q, a) == \A i \in 1..Len(q) : q[i] \in NamedTokens => NameOf(q[i]) \in DOMAIN a

\* number of named placeholders among the first i tokens of q
NamedUpTo(q, i) == Cardinality({j \in 1..i : q[j] \in NamedTokens})

\* pq with pargs is q in positional form for the argument map a: the text is
\* kept, the k-th named placeholder is the k-th positional one, and the k-th
\* argument is the value of its name
PositionalForm(q, a, bind, pq, pargs) ==
    /\ Len(pq) = Len(q)
    /\ Len(pargs) = NamedUpTo(q, Len(q))
    /\ \A i \in 1..Len(q) :
         IF q[i] \in NamedTokens
         THEN /\ pq[i] = IF bind = "DOLLAR" THEN Dollar(NamedUpTo(q, i)) ELSE "?"
              /\ pargs[NamedUpTo(q, i)] = a[NameOf(q[i])]
         ELSE pq[i] = q[i]

\* C9: in every named variant the expansion comes first; when it fails the
\* variant returns a binding error and nothing else is called; when it succeeds
\* the variant calls its positional counterpart exactly once, with the query in
\* positional form and the arguments in placeholder order, and every driver
\* call comes after that.
C9_NamedVariants ==
    (op = "Named" /\ pc # "named_query") =>
      LET v == input.variant
          p == Index(log, Positional(v))
      IN  /\ log[1].call = "Named" /\ Count(log, "Named") = 1
          /\ ~Bound(input.query, input.arg) =>
                /\ status = "returned"
                /\ err # Nil /\ Contains(err, "bind_err")
                /\ Len(log) = 1
          /\ Bound(input.query, input.arg) =>
                /\ Count(log, Positional(v)) <= 1
                /\ (pc # "delegate") =>
                      /\ Count(log, Positional(v)) = 1
                      /\ PositionalForm(input.query, input.arg, input.bind,
                                        log[p].query, log[p].args)
                      /\ \A i \in 1..Len(log) :
                           log[i].call \in DriverCalls => i > p
                      /\ (status = "returned") => Called(DriverCall(v))
                      /\ Called(DriverCall(v)) =>
                            /\ Count(log, DriverCall(v)) = 1
                            /\ log[Index(log, DriverCall(v))].query = log[p].query
                            /\ log[Index(log, DriverCall(v))].args = log[p].args
          /\ \A i \in 1..Len(log) : log[i].call \in DriverCalls => i > 1

\* C9 witness: a variant whose second placeholder has no value has returned
C9_Witness ==
    /\ op = "Named" /\ status = "returned"
    /\ Len(input.query) = 2
    /\ input.query[1] \in NamedTokens /\ NameOf(input.query[1]) \in DOMAIN input.arg
    /\ input.query[2] \in NamedTokens /\ NameOf(input.query[2]) \notin DOMAIN input.arg
    /\ err # Nil

\* C10: when the unit of work panics, the deferred block finds the result
\* error nil, calls Commit and not Rollback, and a successful Commit makes
\* what the unit of work wrote the committed state.
C10_PanicCommits ==
    (op = "RunTx" /\ panicking) =>
      /\ (pc = "deferred") => err = Nil
      /\ (status = "panicked") =>
           /\ Count(log, "Commit") = 1 /\ Count(log, "Rollback") = 0
           /\ log[Len(log)].call = "Commit"
           /\ (ResultOf("Commit") = Nil) => (txState = "committed" /\ store = txView)

\* C10 witness: a unit of work wrote, panicked, and its write is committed
C10_Witness ==
    /\ op = "RunTx" /\ status = "panicked"
    /\ txState = "committed"
    /\ input.login \in Logins
    /\ store # pre
    /\ store[input.login] = input.newName

====
